---------------------------- MODULE Spec2Model ----------------------------
(***************************************************************************)
(* A model of gpu_display/src/lib.rs: the GpuDisplay connection, its two   *)
(* handle tables (dmabufs, surfaces), the id counters, the per-surface     *)
(* double-buffering index, and the drop glue that destroys native handles. *)
(* The native compositor-client library (mod dwl) is modelled by the set   *)
(* of handles it has created and not destroyed, and by the list of native  *)
(* calls each operation issues.                                            *)
(***************************************************************************)
EXTENDS Integers, Sequences, FiniteSets, TLC

(* ------------------------------ bounds -------------------------------- *)
\* native surfaces and dmabufs created per connection (successful
\* create_surface and import_dmabuf calls together)
MaxObjects == 2
\* modelled width of the u32 type (arithmetic is taken modulo 2^U32_BITS)
U32_BITS == 16

(* ------------------------- program constants -------------------------- *)
BUFFER_COUNT == 2
BYTES_PER_PIXEL == 4
\* pagesize() of sys_util::round_up_to_page_size
PAGE_SIZE == 4096

U32_MOD == 2 ^ U32_BITS
\* std::ptr::null_mut()
null_mut == 0
\* Option::None of parent_surface_id
NoParent == -1

(* ------------------------------ inputs -------------------------------- *)
\* (width, height) pairs given to create_surface
Dims == { <<64, 64>> }
\* coordinates given to set_position
Positions == { <<0, 0>>, <<8, 4>> }
\* endpoint paths given to GpuDisplay::new
Paths == { "wayland-0", "non_utf8", "interior_nul" }

VARIABLES
    phase,            \* "new" | "live" | "failed" | "dropped"
    debug_build,      \* cfg(debug_assertions): debug_assert! is compiled in
    pointer_width,    \* target_pointer_width: bits of usize, 32 or 64
    ctx,              \* GpuDisplay.ctx.0 (or the local ctx of GpuDisplay::new)
    dmabufs,          \* GpuDisplay.dmabufs : import id -> native dmabuf handle
    dmabuf_next_id,   \* GpuDisplay.dmabuf_next_id
    surfaces,         \* GpuDisplay.surfaces : surface id -> GpuDisplaySurface
    surface_next_id,  \* GpuDisplay.surface_next_id
    dwl_contexts,     \* native contexts created and not destroyed
    dwl_dmabufs,      \* native dmabufs created and not destroyed
    dwl_surfaces,     \* native surfaces created and not destroyed -> their state
    dwl_allocs,       \* number of native objects of each kind created so far
    ctx_destroys,     \* number of dwl_context_destroy calls issued so far
    op,               \* the operation that ran last and its arguments
    ret,              \* what it returned
    calls,            \* the native / shared-memory calls it issued, in order
    issued_surfaces,  \* ids returned by successful create_surface in the
                      \* behaviour so far, in order
    issued_imports,   \* the same for import_dmabuf
    comp_held,        \* native surface -> buffer slots the compositor holds
    comp_pending,     \* native surface -> held slots whose release is queued
    checked,          \* surface ids whose next buffer the caller found free
    last_returned,    \* surface id -> slot framebuffer_memory returned last
    written           \* (native surface, slot) the caller wrote in this step

gpu == << ctx, dmabufs, dmabuf_next_id, surfaces, surface_next_id >>
dwl == << dwl_contexts, dwl_dmabufs, dwl_surfaces, dwl_allocs, ctx_destroys >>
obs == << op, ret, calls >>
hist == << issued_surfaces, issued_imports >>
\* the compositor's side of the buffers and the caller's use of them
ext == << comp_held, comp_pending, checked, last_returned, written >>
\* what the crate was compiled as
build == << debug_build, pointer_width >>
vars == << phase, build, gpu, dwl, obs, hist, ext >>

(* ----------------------------- records -------------------------------- *)
\* name and arguments of an operation (c is used by GpuDisplay::new only)
Op(name, a, b, c) == [name |-> name, a |-> a, b |-> b, c |-> c]
\* a call of fn on handle h with up to two further arguments
Call2(fn, h, arg, arg2) == [fn |-> fn, h |-> h, arg |-> arg, arg2 |-> arg2]
Call(fn, h, arg) == Call2(fn, h, arg, 0)

Unit == [kind |-> "unit", err |-> "", val |-> 0, len |-> 0]
Panic == [kind |-> "panic", err |-> "", val |-> 0, len |-> 0]
Err(e) == [kind |-> "Err", err |-> e, val |-> 0, len |-> 0]
Ok(v) == [kind |-> "Ok", err |-> "", val |-> v, len |-> 0]
Bool(b) == [kind |-> "bool", err |-> "", val |-> IF b THEN 1 ELSE 0, len |-> 0]
None == [kind |-> "None", err |-> "", val |-> 0, len |-> 0]
Some(offset, size) == [kind |-> "Some", err |-> "", val |-> offset, len |-> size]

(* ----------------------- HashMap<u32, V> ------------------------------ *)
HashMap_get(map, k) == IF k \in DOMAIN map THEN << map[k] >> ELSE << >>
HashMap_insert(map, k, v) ==
    [x \in DOMAIN map \cup {k} |-> IF x = k THEN v ELSE map[x]]
HashMap_remove(map, k) == [x \in DOMAIN map \ {k} |-> map[x]]
EmptyMap == << >>

(* -------------------- integer arithmetic of the build ----------------- *)
\* a * b on u32: None on overflow when overflow checks are compiled in (debug
\* build, where the operation panics), the wrapped product otherwise
u32_mul(a, b) ==
    IF a * b >= U32_MOD /\ debug_build THEN << >> ELSE << (a * b) % U32_MOD >>
\* a + 1 on u32, as for u32_mul
u32_inc(a) ==
    IF a + 1 >= U32_MOD /\ debug_build THEN << >> ELSE << (a + 1) % U32_MOD >>

\* a * b and a + b on usize, for operands that fit in u32 or are one page
\* above it: a 64-bit usize holds every such result; a 32-bit usize is as wide
\* as u32 and overflows as u32 does
usize_mul(a, b) ==
    IF pointer_width = 32 THEN u32_mul(a, b) ELSE << a * b >>
usize_add(a, b) ==
    IF pointer_width = 32
    THEN IF a + b >= U32_MOD /\ debug_build THEN << >>
         ELSE << (a + b) % U32_MOD >>
    ELSE << a + b >>

\* (v + page_mask) & !page_mask without a limit on the width of the sum
round_up_to_page_size(v) == ((v + (PAGE_SIZE - 1)) \div PAGE_SIZE) * PAGE_SIZE
\* sys_util::round_up_to_page_size on usize: None when the addition panics
usize_round_up_to_page_size(v) ==
    LET sum == usize_add(v, PAGE_SIZE - 1)
    IN IF sum = << >> THEN << >>
       ELSE << (sum[1] \div PAGE_SIZE) * PAGE_SIZE >>

\* assert!(false, ...): the assertion kept in release builds
assert_false(r) == Panic
\* debug_assert!(false, ...) followed by the value the release build returns
debug_assert_false(r) == IF debug_build THEN Panic ELSE r

(* ------------------------- path conversion ---------------------------- *)
\* Path::as_os_str().to_str(): None when the path is not valid UTF-8
to_str(path) == IF path = "non_utf8" THEN << >> ELSE << path >>
\* CString::new(str): Err when the string holds an interior NUL byte
CString_new(str) == IF str = "interior_nul" THEN << >> ELSE << str >>

(* --------------------- native library (mod dwl) ----------------------- *)
\* the address of the n-th native object of a kind (kinds never share one)
dwl_address(kind, n) ==
    CASE kind = "context" -> n
      [] kind = "dmabuf" -> 100 + n
      [] kind = "surface" -> 200 + n
\* dwl_context_new / dwl_context_dmabuf_new / dwl_context_surface_new: a fresh
\* non-null handle, or null when the native layer fails
dwl_new(kind, ok) ==
    IF ok THEN dwl_address(kind, dwl_allocs[kind] + 1) ELSE null_mut
\* the allocation counts after a dwl_*_new call that returned h
dwl_allocated(kind, h) ==
    IF h = null_mut THEN dwl_allocs
    ELSE [dwl_allocs EXCEPT ![kind] = dwl_allocs[kind] + 1]
\* surfaces and dmabufs created so far
dwl_objects == dwl_allocs["dmabuf"] + dwl_allocs["surface"]
\* dwl_*_destroy(&mut ptr): the value the native layer leaves in *ptr
dwl_destroy_ptr(h) == null_mut
\* state of a native surface right after dwl_context_surface_new: the parent
\* and the dimensions it was given, and no buffer presented yet
dwl_surface_init(parent, width, height) ==
    [parent |-> parent, width |-> width, height |-> height, flipped |-> -1]

\* handles passed to the native destroy function fn in the call list cs
Destroyed(cs, fn) == { cs[i].h : i \in { j \in DOMAIN cs : cs[j].fn = fn } }
\* number of calls of fn in cs
Count(cs, fn) == Cardinality({ j \in DOMAIN cs : cs[j].fn = fn })
\* all enumerations of the finite set S (HashMap iteration order)
Orders(S) ==
    { s \in [1 .. Cardinality(S) -> S] : \A x \in S : \E i \in DOMAIN s : s[i] = x }
RECURSIVE Flatten(_)
Flatten(ss) == IF ss = << >> THEN << >> ELSE Head(ss) \o Flatten(Tail(ss))

(* ------------------------------ drop glue ----------------------------- *)
\* a guard that destroys without the null check
DwlContext_drop_unchecked(h) == << Call("dwl_context_destroy", h, 0) >>
DwlContext_drop(h) ==
    IF h # null_mut THEN << Call("dwl_context_destroy", h, 0) >> ELSE << >>
DwlDmabuf_drop(h) ==
    IF h # null_mut THEN << Call("dwl_dmabuf_destroy", h, 0) >> ELSE << >>
\* a surface guard that destroys its handle without the null check
DwlSurface_drop_unchecked(h) == << Call("dwl_surface_destroy", h, 0) >>
\* a surface guard that forgets its handle without destroying it
DwlSurface_drop_leak(h) == << >>
DwlSurface_drop(h) ==
    IF h # null_mut THEN << Call("dwl_surface_destroy", h, 0) >> ELSE << >>
\* fields of GpuDisplaySurface drop in declaration order: surface, ..., buffer_mem
GpuDisplaySurface_drop(s) ==
    DwlSurface_drop(s.surface) \o << Call("MemoryMapping::drop", 0, s.buffer_mem) >>

\* the native state after the calls cs
dwl_apply(cs) ==
    /\ dwl_contexts' = dwl_contexts \ Destroyed(cs, "dwl_context_destroy")
    /\ dwl_dmabufs' = dwl_dmabufs \ Destroyed(cs, "dwl_dmabuf_destroy")
    /\ dwl_surfaces' =
          [h \in DOMAIN dwl_surfaces \ Destroyed(cs, "dwl_surface_destroy")
             |-> dwl_surfaces[h]]
    /\ ctx_destroys' = ctx_destroys + Count(cs, "dwl_context_destroy")

(* ------------------------------- Init --------------------------------- *)
\* the state before GpuDisplay::new, of a build for a target whose usize has
\* one of the widths
InitFor(widths) ==
    /\ pointer_width \in widths
    /\ phase = "new"
    /\ debug_build \in BOOLEAN
    /\ ctx = null_mut
    /\ dmabufs = EmptyMap
    /\ dmabuf_next_id = 0
    /\ surfaces = EmptyMap
    /\ surface_next_id = 0
    /\ dwl_contexts = {}
    /\ dwl_dmabufs = {}
    /\ dwl_surfaces = EmptyMap
    /\ dwl_allocs = [context |-> 0, dmabuf |-> 0, surface |-> 0]
    /\ ctx_destroys = 0
    /\ op = Op("none", 0, 0, 0)
    /\ ret = Unit
    /\ calls = << >>
    /\ issued_surfaces = << >>
    /\ issued_imports = << >>
    /\ comp_held = EmptyMap
    /\ comp_pending = EmptyMap
    /\ checked = {}
    /\ last_returned = EmptyMap
    /\ written = << >>

\* the sizes given to create_surface here stay far below either width of
\* usize, so that one width is followed
Init == InitFor({64})

(* ------------------------- GpuDisplay::new ---------------------------- *)
\* the path converted before the context is allocated
new_error_path_first(h, path, setup_ok) ==
    IF to_str(path) = << >> THEN "InvalidPath"
    ELSE IF CString_new(to_str(path)[1]) = << >> THEN "InvalidPath"
    ELSE IF h = null_mut THEN "Allocate"
    ELSE IF ~setup_ok THEN "Connect"
    ELSE ""
\* the error GpuDisplay::new returns, "" when it succeeds
new_error(h, path, setup_ok) ==
    IF h = null_mut THEN "Allocate"
    ELSE IF to_str(path) = << >> THEN "InvalidPath"
    ELSE IF CString_new(to_str(path)[1]) = << >> THEN "InvalidPath"
    ELSE IF ~setup_ok THEN "Connect"
    ELSE ""

new(path, alloc_ok, setup_ok) ==
    /\ phase = "new"
    /\ LET h == dwl_new("context", alloc_ok)
           e == new_error(h, path, setup_ok)
           setup == IF e \in {"Connect", ""}
                    THEN << Call("dwl_context_setup", h, 0) >> ELSE << >>
           \* on every error return the local ctx guard goes out of scope
           dropped == IF e # "" THEN DwlContext_drop(h) ELSE << >>
           cs == << Call("dwl_context_new", h, 0) >> \o setup \o dropped
       IN /\ op' = Op("new", path, alloc_ok, setup_ok)
          /\ calls' = cs
          /\ dwl_allocs' = dwl_allocated("context", h)
          /\ dwl_contexts' =
                (dwl_contexts \cup (IF h # null_mut THEN {h} ELSE {}))
                   \ Destroyed(cs, "dwl_context_destroy")
          /\ ctx_destroys' = ctx_destroys + Count(cs, "dwl_context_destroy")
          /\ IF e = ""
             THEN /\ phase' = "live"
                  /\ ret' = Ok(0)
                  /\ ctx' = h
                  /\ dmabufs' = EmptyMap
                  /\ dmabuf_next_id' = 0
                  /\ surfaces' = EmptyMap
                  /\ surface_next_id' = 0
             ELSE /\ phase' = "failed"
                  /\ ret' = Err(e)
                  /\ UNCHANGED gpu
    /\ UNCHANGED << build, dwl_dmabufs, dwl_surfaces, hist >>

(* ----------------------- GpuDisplay::get_surface ---------------------- *)
get_surface(surface_id) == HashMap_get(surfaces, surface_id)

(* ---------------------- GpuDisplay::import_dmabuf --------------------- *)
\* the handle filed under the incremented counter
import_dmabuf_insert_after(next_id, h) == HashMap_insert(dmabufs, next_id + 1, h)
\* the table after self.dmabufs.insert(next_id, dmabuf)
import_dmabuf_insert(next_id, h) == HashMap_insert(dmabufs, next_id, h)
\* the counter after self.dmabuf_next_id += 1 (None: the addition panics)
import_dmabuf_next_id == u32_inc(dmabuf_next_id)

import_dmabuf(native_ok) ==
    /\ phase = "live"
    /\ LET h == dwl_new("dmabuf", native_ok)
           next_id == dmabuf_next_id
           new_call == << Call("dwl_context_dmabuf_new", h, ctx) >>
       IN /\ op' = Op("import_dmabuf", 0, native_ok, 0)
          /\ IF h = null_mut
             THEN /\ ret' = Err("FailedImport")
                  \* the DwlDmabuf(null) guard is dropped: no destroy call
                  /\ calls' = new_call \o DwlDmabuf_drop(h)
                  /\ UNCHANGED << dmabufs, dmabuf_next_id, dwl_dmabufs,
                                  dwl_allocs, issued_imports >>
             ELSE LET old == HashMap_get(dmabufs, next_id)
                      \* insert returns the replaced value, dropped at once
                      replaced == IF old = << >> THEN << >>
                                  ELSE DwlDmabuf_drop(old[1])
                      inc == import_dmabuf_next_id
                  IN /\ dmabufs' = import_dmabuf_insert(next_id, h)
                     /\ calls' = new_call \o replaced
                     /\ dwl_allocs' = dwl_allocated("dmabuf", h)
                     /\ dwl_dmabufs' = (dwl_dmabufs \cup {h})
                                          \ Destroyed(replaced, "dwl_dmabuf_destroy")
                     /\ IF inc = << >>
                        THEN /\ ret' = Panic
                             /\ UNCHANGED << dmabuf_next_id, issued_imports >>
                        ELSE /\ ret' = Ok(next_id)
                             /\ dmabuf_next_id' = inc[1]
                             /\ issued_imports' = Append(issued_imports, next_id)
    /\ UNCHANGED << phase, build, ctx, surfaces, surface_next_id,
                    dwl_contexts, dwl_surfaces, ctx_destroys, issued_surfaces >>

(* ---------------------- GpuDisplay::release_import -------------------- *)
release_import_remove(import_id) == HashMap_remove(dmabufs, import_id)

release_import(import_id) ==
    /\ phase = "live"
    /\ LET old == HashMap_get(dmabufs, import_id)
           cs == IF old = << >> THEN << >> ELSE DwlDmabuf_drop(old[1])
       IN /\ op' = Op("release_import", import_id, 0, 0)
          /\ ret' = Unit
          /\ calls' = cs
          /\ dmabufs' = release_import_remove(import_id)
          /\ dwl_apply(cs)
    /\ UNCHANGED << phase, build, ctx, dmabuf_next_id, surfaces,
                    surface_next_id, dwl_allocs, hist >>

(* ---------------------- GpuDisplay::dispatch_events ------------------- *)
dispatch_events ==
    /\ phase = "live"
    /\ op' = Op("dispatch_events", 0, 0, 0)
    /\ ret' = Unit
    /\ calls' = << Call("dwl_context_dispatch", ctx, 0) >>
    /\ UNCHANGED << phase, build, gpu, dwl, hist >>

(* ---------------------- GpuDisplay::create_surface -------------------- *)
\* outcomes of the shared-memory and native calls create_surface makes
CreateFailures == { "none", "CreateShm", "SetSize", "mmap", "CreateSurface" }

\* an unknown parent id taken for "no parent"
create_surface_parent_or_null(parent_surface_id) ==
    IF parent_surface_id = NoParent \/ parent_surface_id \notin DOMAIN surfaces
    THEN << null_mut >>
    ELSE << surfaces[parent_surface_id].surface >>
\* parent_ptr: None when the parent id is not in the table
create_surface_parent(parent_surface_id) ==
    IF parent_surface_id = NoParent THEN << null_mut >>
    ELSE IF get_surface(parent_surface_id) = << >> THEN << >>
    ELSE << get_surface(parent_surface_id)[1].surface >>

\* row_size, fb_size and buffer_size; None when the arithmetic panics
create_surface_sizes(width, height) ==
    LET row_size == u32_mul(width, BYTES_PER_PIXEL)
    IN IF row_size = << >> THEN << >>
       ELSE LET fb_size == u32_mul(row_size[1], height)
            IN IF fb_size = << >> THEN << >>
               ELSE LET total == usize_mul(fb_size[1], BUFFER_COUNT)
                    IN IF total = << >> THEN << >>
                       ELSE LET buffer_size ==
                                    usize_round_up_to_page_size(total[1])
                            IN IF buffer_size = << >> THEN << >>
                               ELSE << [row_size |-> row_size[1],
                                        fb_size |-> fb_size[1],
                                        buffer_size |-> buffer_size[1]] >>

\* the GpuDisplaySurface filed away on success
create_surface_entry(h, sz) ==
    [surface |-> h, buffer_size |-> sz.fb_size, buffer_index |-> 0,
     buffer_mem |-> sz.buffer_size]
\* the table after self.surfaces.insert(next_id, ...)
create_surface_insert(next_id, entry) == HashMap_insert(surfaces, next_id, entry)
\* a counter that is not advanced
create_surface_same_id == << surface_next_id >>
\* the counter after self.surface_next_id += 1 (None: the addition panics)
create_surface_next_id == u32_inc(surface_next_id)

create_surface(parent_surface_id, width, height, fail) ==
    /\ phase = "live"
    /\ op' = Op("create_surface", parent_surface_id, 0, 0)
    /\ LET parent_ptr == create_surface_parent(parent_surface_id)
           sizes == create_surface_sizes(width, height)
       IN IF parent_ptr = << >>
          THEN /\ ret' = Err("InvalidSurfaceId")
               /\ calls' = << >>
               /\ UNCHANGED << surfaces, surface_next_id, dwl_surfaces,
                               dwl_allocs, issued_surfaces >>
          ELSE IF sizes = << >>
          THEN /\ ret' = Panic
               /\ calls' = << >>
               /\ UNCHANGED << surfaces, surface_next_id, dwl_surfaces,
                               dwl_allocs, issued_surfaces >>
          ELSE
            LET sz == sizes[1]
                shm_new == << Call("SharedMemory::new", 0, 0) >>
                set_size == << Call("SharedMemory::set_size", 0, sz.buffer_size) >>
                from_fd == << Call("MemoryMapping::from_fd", 0, sz.buffer_size) >>
                shm_drop == << Call("SharedMemory::drop", 0, 0) >>
                mem_drop == << Call("MemoryMapping::drop", 0, sz.buffer_size) >>
                h == dwl_new("surface", fail # "CreateSurface")
                surface_new == << Call("dwl_context_surface_new", h, parent_ptr[1]) >>
            IN IF fail = "CreateShm"
               THEN /\ ret' = Err("CreateShm")
                    /\ calls' = shm_new
                    /\ UNCHANGED << surfaces, surface_next_id, dwl_surfaces,
                                    dwl_allocs, issued_surfaces >>
               ELSE IF fail = "SetSize"
               THEN /\ ret' = Err("SetSize")
                    /\ calls' = shm_new \o set_size \o shm_drop
                    /\ UNCHANGED << surfaces, surface_next_id, dwl_surfaces,
                                    dwl_allocs, issued_surfaces >>
               ELSE IF fail = "mmap" \/ sz.buffer_size = 0
               THEN \* MemoryMapping::from_fd(..).unwrap() on an Err
                    /\ ret' = Panic
                    /\ calls' = shm_new \o set_size \o from_fd \o shm_drop
                    /\ UNCHANGED << surfaces, surface_next_id, dwl_surfaces,
                                    dwl_allocs, issued_surfaces >>
               ELSE IF h = null_mut
               THEN /\ ret' = Err("CreateSurface")
                    \* locals drop in reverse order: surface, buffer_mem, buffer_shm
                    /\ calls' = shm_new \o set_size \o from_fd \o surface_new
                                   \o DwlSurface_drop(h) \o mem_drop \o shm_drop
                    /\ UNCHANGED << surfaces, surface_next_id, dwl_surfaces,
                                    dwl_allocs, issued_surfaces >>
               ELSE
                 LET next_id == surface_next_id
                     old == HashMap_get(surfaces, next_id)
                     \* insert returns the replaced value, dropped at once
                     replaced == IF old = << >> THEN << >>
                                 ELSE GpuDisplaySurface_drop(old[1])
                     inc == create_surface_next_id
                 IN /\ surfaces' =
                          create_surface_insert(next_id, create_surface_entry(h, sz))
                    /\ calls' = shm_new \o set_size \o from_fd \o surface_new
                                   \o replaced \o shm_drop
                    /\ dwl_allocs' = dwl_allocated("surface", h)
                    /\ dwl_surfaces' =
                          [x \in (DOMAIN dwl_surfaces \cup {h})
                                    \ Destroyed(replaced, "dwl_surface_destroy")
                             |-> IF x = h THEN dwl_surface_init(parent_ptr[1], width, height)
                                 ELSE dwl_surfaces[x]]
                    /\ IF inc = << >>
                       THEN /\ ret' = Panic
                            /\ UNCHANGED << surface_next_id, issued_surfaces >>
                       ELSE /\ ret' = Ok(next_id)
                            /\ surface_next_id' = inc[1]
                            /\ issued_surfaces' = Append(issued_surfaces, next_id)
    /\ UNCHANGED << phase, build, ctx, dmabufs, dmabuf_next_id,
                    dwl_contexts, dwl_dmabufs, ctx_destroys, issued_imports >>

(* ---------------------- GpuDisplay::release_surface ------------------- *)
\* a release that clears the table
release_surface_clear(surface_id) == EmptyMap
release_surface_remove(surface_id) == HashMap_remove(surfaces, surface_id)

release_surface(surface_id) ==
    /\ phase = "live"
    /\ LET old == HashMap_get(surfaces, surface_id)
           cs == IF old = << >> THEN << >> ELSE GpuDisplaySurface_drop(old[1])
       IN /\ op' = Op("release_surface", surface_id, 0, 0)
          /\ ret' = Unit
          /\ calls' = cs
          /\ surfaces' = release_surface_remove(surface_id)
          /\ dwl_apply(cs)
    /\ UNCHANGED << phase, build, ctx, dmabufs, dmabuf_next_id,
                    surface_next_id, dwl_allocs, hist >>

(* -------------------- GpuDisplay::framebuffer_memory ------------------ *)
\* MemoryMapping::get_slice(offset, count): None when out of bounds
get_slice(mem_size, offset, count) ==
    IF offset + count > mem_size THEN None ELSE Some(offset, count)

\* the slice of the buffer being displayed instead of the next one
framebuffer_memory_current(surface) == surface.buffer_index
framebuffer_memory_index(surface) == (surface.buffer_index + 1) % BUFFER_COUNT

framebuffer_memory(surface_id) ==
    /\ phase = "live"
    /\ op' = Op("framebuffer_memory", surface_id, 0, 0)
    /\ calls' = << >>
    /\ LET s == get_surface(surface_id)
       IN IF s = << >> THEN ret' = None
          ELSE LET buffer_index == framebuffer_memory_index(s[1])
               IN ret' = get_slice(s[1].buffer_mem,
                                   buffer_index * s[1].buffer_size,
                                   s[1].buffer_size)
    /\ UNCHANGED << phase, build, gpu, dwl, hist >>

(* ------------------------- GpuDisplay::commit ------------------------- *)
commit(surface_id) ==
    /\ phase = "live"
    /\ op' = Op("commit", surface_id, 0, 0)
    /\ LET s == get_surface(surface_id)
       IN IF s # << >>
          THEN /\ calls' = << Call("dwl_surface_commit", s[1].surface, 0) >>
               /\ ret' = Unit
          ELSE /\ calls' = << >>
               /\ ret' = debug_assert_false(Unit)
    /\ UNCHANGED << phase, build, gpu, dwl, hist >>

(* -------------------- GpuDisplay::next_buffer_in_use ------------------ *)
\* a query about the buffer being displayed
next_buffer_in_use_current(surface) == surface.buffer_index
\* a query about slot 0 whatever the index
next_buffer_in_use_first(surface) == 0
next_buffer_in_use_index(surface) == (surface.buffer_index + 1) % BUFFER_COUNT

next_buffer_in_use(surface_id, native_ret) ==
    /\ phase = "live"
    /\ op' = Op("next_buffer_in_use", surface_id, 0, 0)
    /\ LET s == get_surface(surface_id)
       IN IF s # << >>
          THEN /\ calls' = << Call("dwl_surface_buffer_in_use", s[1].surface,
                                    next_buffer_in_use_index(s[1])) >>
               /\ ret' = Bool(native_ret)
          ELSE /\ calls' = << >>
               /\ ret' = debug_assert_false(Bool(FALSE))
    /\ UNCHANGED << phase, build, gpu, dwl, hist >>

(* -------------------------- GpuDisplay::flip -------------------------- *)
\* a flip that presents the buffer already displayed
flip_index_current(surface) == surface.buffer_index
flip_index(surface) == (surface.buffer_index + 1) % BUFFER_COUNT
\* a flip that stores the new index in every surface of the table
flip_set_all(surface_id, idx) ==
    [x \in DOMAIN surfaces |-> [surfaces[x] EXCEPT !.buffer_index = idx]]
\* the table after surface.buffer_index.set(idx) on the surface looked up
flip_set(surface_id, idx) ==
    [surfaces EXCEPT ![surface_id].buffer_index = idx]

flip(surface_id) ==
    /\ phase = "live"
    /\ op' = Op("flip", surface_id, 0, 0)
    /\ LET s == get_surface(surface_id)
       IN IF s # << >>
          THEN LET idx == flip_index(s[1])
                   h == s[1].surface
               IN /\ surfaces' = flip_set(surface_id, idx)
                  /\ calls' = << Call("dwl_surface_flip", h, idx) >>
                  /\ dwl_surfaces' =
                        [x \in DOMAIN dwl_surfaces |->
                           IF x = h THEN [dwl_surfaces[x] EXCEPT !.flipped = idx]
                           ELSE dwl_surfaces[x]]
                  /\ ret' = Unit
          ELSE /\ calls' = << >>
               /\ ret' = debug_assert_false(Unit)
               /\ UNCHANGED << surfaces, dwl_surfaces >>
    /\ UNCHANGED << phase, build, ctx, dmabufs, dmabuf_next_id,
                    surface_next_id, dwl_contexts, dwl_dmabufs, dwl_allocs,
                    ctx_destroys, hist >>

(* ------------------------- GpuDisplay::flip_to ------------------------ *)
flip_to(surface_id, import_id) ==
    /\ phase = "live"
    /\ op' = Op("flip_to", surface_id, import_id, 0)
    /\ LET s == get_surface(surface_id)
           d == HashMap_get(dmabufs, import_id)
       IN IF s # << >>
          THEN IF d # << >>
               THEN /\ calls' = << Call("dwl_surface_flip_to", s[1].surface, d[1]) >>
                    /\ ret' = Unit
               ELSE /\ calls' = << >>
                    /\ ret' = debug_assert_false(Unit)
          ELSE /\ calls' = << >>
               /\ ret' = debug_assert_false(Unit)
    /\ UNCHANGED << phase, build, gpu, dwl, hist >>

(* --------------------- GpuDisplay::close_requested -------------------- *)
close_requested(surface_id, native_ret) ==
    /\ phase = "live"
    /\ op' = Op("close_requested", surface_id, 0, 0)
    /\ LET s == get_surface(surface_id)
       IN IF s # << >>
          THEN /\ calls' = << Call("dwl_surface_close_requested", s[1].surface, 0) >>
               /\ ret' = Bool(native_ret)
          ELSE /\ calls' = << >>
               /\ ret' = Bool(FALSE)
    /\ UNCHANGED << phase, build, gpu, dwl, hist >>

(* ---------------------- GpuDisplay::set_position ---------------------- *)
set_position(surface_id, x, y) ==
    /\ phase = "live"
    /\ op' = Op("set_position", surface_id, x, y)
    /\ LET s == get_surface(surface_id)
       IN IF s # << >>
          THEN /\ calls' = << Call2("dwl_surface_set_position", s[1].surface, x, y) >>
               /\ ret' = Unit
          ELSE /\ calls' = << >>
               /\ ret' = debug_assert_false(Unit)
    /\ UNCHANGED << phase, build, gpu, dwl, hist >>

(* ------------------------ impl Drop for GpuDisplay -------------------- *)
\* the calls made when a GpuDisplay goes away: Drop::drop of GpuDisplay, then
\* its fields in declaration order (ctx, dmabufs, surfaces); dorder and sorder
\* are the orders in which the two hash maps yield their values
GpuDisplay_drop_calls(dorder, sorder) ==
    << Call("dwl_context_destroy", ctx, 0) >>
       \o DwlContext_drop(dwl_destroy_ptr(ctx))
       \o Flatten([i \in DOMAIN dorder |-> DwlDmabuf_drop(dmabufs[dorder[i]])])
       \o Flatten([i \in DOMAIN sorder |-> GpuDisplaySurface_drop(surfaces[sorder[i]])])

GpuDisplay_drop(dorder, sorder) ==
    /\ phase = "live"
    /\ phase' = "dropped"
    /\ op' = Op("drop", 0, 0, 0)
    /\ ret' = Unit
    /\ LET cs == GpuDisplay_drop_calls(dorder, sorder)
       IN /\ calls' = cs
          /\ dwl_apply(cs)
    /\ ctx' = null_mut
    /\ dmabufs' = EmptyMap
    /\ surfaces' = EmptyMap
    /\ UNCHANGED << build, dmabuf_next_id, surface_next_id, dwl_allocs, hist >>

(* ------------------------------- Next --------------------------------- *)
\* arguments a caller may pass as a surface or import id: every id issued so
\* far (registered or released), and the first id that was never issued
SurfaceIds == 0 .. surface_next_id
ImportIds == 0 .. dmabuf_next_id

\* the operations of the handle manager in any order; what the compositor
\* answers to an in-use or close query is an arbitrary input here
Next ==
    \/ \E path \in Paths, alloc_ok \in BOOLEAN, setup_ok \in BOOLEAN :
          new(path, alloc_ok, setup_ok) /\ UNCHANGED ext
    \/ \E native_ok \in BOOLEAN :
          (native_ok => dwl_objects < MaxObjects)
             /\ import_dmabuf(native_ok) /\ UNCHANGED ext
    \/ \E id \in ImportIds : release_import(id) /\ UNCHANGED ext
    \/ dispatch_events /\ UNCHANGED ext
    \/ \E p \in SurfaceIds \cup {NoParent}, d \in Dims, fail \in CreateFailures :
          (fail = "none" => dwl_objects < MaxObjects)
             /\ create_surface(p, d[1], d[2], fail) /\ UNCHANGED ext
    \/ \E id \in SurfaceIds : release_surface(id) /\ UNCHANGED ext
    \/ \E id \in SurfaceIds : framebuffer_memory(id) /\ UNCHANGED ext
    \/ \E id \in SurfaceIds : commit(id) /\ UNCHANGED ext
    \/ \E id \in SurfaceIds, b \in BOOLEAN : next_buffer_in_use(id, b)
          /\ UNCHANGED ext
    \/ \E id \in SurfaceIds : flip(id) /\ UNCHANGED ext
    \/ \E id \in SurfaceIds, import_id \in ImportIds : flip_to(id, import_id)
          /\ UNCHANGED ext
    \/ \E id \in SurfaceIds, b \in BOOLEAN : close_requested(id, b)
          /\ UNCHANGED ext
    \/ \E id \in SurfaceIds, pos \in Positions : set_position(id, pos[1], pos[2])
          /\ UNCHANGED ext
    \/ \E dorder \in Orders(DOMAIN dmabufs), sorder \in Orders(DOMAIN surfaces) :
          GpuDisplay_drop(dorder, sorder) /\ UNCHANGED ext

Spec == Init /\ [][Next]_vars

(* --------------------- surfaces of every size ------------------------- *)
\* (width, height) pairs around the edges of the products: an ordinary
\* surface, a single pixel, an empty surface, a row size that wraps to
\* nothing in u32, a row size that wraps to one pixel, a frame size that wraps
\* in the second multiplication, a frame size that fits u32 while two of them
\* do not, and two frames that fit u32 while their page rounding does not
SizeDims ==
    { <<64, 64>>, <<1, 1>>, <<0, 64>>,
      <<U32_MOD \div BYTES_PER_PIXEL, 1>>,
      <<U32_MOD \div BYTES_PER_PIXEL + 1, 1>>,
      <<16, U32_MOD \div 64 + 1>>,
      <<U32_MOD \div 8 + 512, 1>>,
      <<U32_MOD \div 8 - 1, 1>> }

\* one surface at a time, of any of these sizes, created, drawn to, flipped
\* and released
NextSizes ==
    \/ \E path \in Paths, alloc_ok \in BOOLEAN, setup_ok \in BOOLEAN :
          new(path, alloc_ok, setup_ok) /\ UNCHANGED ext
    \/ \E d \in SizeDims, fail \in CreateFailures :
          (fail = "none" => surfaces = EmptyMap /\ dwl_objects < MaxObjects)
             /\ create_surface(NoParent, d[1], d[2], fail) /\ UNCHANGED ext
    \/ \E id \in SurfaceIds : release_surface(id) /\ UNCHANGED ext
    \/ \E id \in SurfaceIds : framebuffer_memory(id) /\ UNCHANGED ext
    \/ \E id \in SurfaceIds : flip(id) /\ UNCHANGED ext
    \/ \E dorder \in Orders(DOMAIN dmabufs), sorder \in Orders(DOMAIN surfaces) :
          GpuDisplay_drop(dorder, sorder) /\ UNCHANGED ext

InitSizes == InitFor({32, 64})
SpecSizes == InitSizes /\ [][NextSizes]_vars

(* ------------------- the compositor and the caller -------------------- *)
\* dwl_surface_buffer_in_use(surface, index): whether the compositor holds a
\* reference to that buffer of the surface
dwl_surface_buffer_in_use(h, index) ==
    h \in DOMAIN comp_held /\ index \in comp_held[h]

\* the slot a slice returned by framebuffer_memory lies in
SliceSlot(r) == r.val \div r.len

\* the compositor's and the caller's books after a step that leaves them at
\* held, pending, chk, last and wr: a native surface destroyed in the step is
\* forgotten, one created in it holds nothing, and so for the surface ids
Tracked(held, pending, chk, last, wr) ==
    /\ comp_held' = [h \in DOMAIN dwl_surfaces' |->
                        IF h \in DOMAIN held THEN held[h] ELSE {}]
    /\ comp_pending' = [h \in DOMAIN dwl_surfaces' |->
                           IF h \in DOMAIN pending THEN pending[h] ELSE {}]
    /\ checked' = chk \cap DOMAIN surfaces'
    /\ last_returned' = [id \in DOMAIN last \cap DOMAIN surfaces' |-> last[id]]
    /\ written' = wr
\* a step that touches no buffer
Untracked == Tracked(comp_held, comp_pending, checked, last_returned, << >>)

\* last_returned after framebuffer_memory(surface_id) returned ret'
framebuffer_memory_returned(surface_id) ==
    IF ret'.kind = "Some"
    THEN HashMap_insert(last_returned, surface_id,
                        [slot |-> SliceSlot(ret'), flips |-> 0])
    ELSE last_returned

\* the caller obtains the slice of the next buffer
buffers_framebuffer_memory(surface_id) ==
    /\ framebuffer_memory(surface_id)
    /\ Tracked(comp_held, comp_pending, checked,
               framebuffer_memory_returned(surface_id), << >>)

\* the caller writes through the slice framebuffer_memory returns, having
\* found the next buffer free and neither flipped the surface nor dispatched
\* events since
caller_write(surface_id) ==
    /\ surface_id \in checked
    /\ framebuffer_memory(surface_id)
    /\ Tracked(comp_held, comp_pending, checked,
               framebuffer_memory_returned(surface_id),
               IF ret'.kind = "Some"
               THEN << surfaces[surface_id].surface, SliceSlot(ret') >>
               ELSE << >>)

\* next_buffer_in_use answered by the compositor's books
buffers_next_buffer_in_use(surface_id) ==
    \E b \in BOOLEAN :
        /\ next_buffer_in_use(surface_id, b)
        /\ calls' # << >> =>
              b = dwl_surface_buffer_in_use(calls'[1].h, calls'[1].arg)
        /\ calls' = << >> => b = FALSE
        /\ Tracked(comp_held, comp_pending,
                   IF calls' # << >> /\ ret' = Bool(FALSE)
                   THEN checked \cup {surface_id}
                   ELSE checked \ {surface_id},
                   last_returned, << >>)

\* dwl_surface_flip(surface, index): the compositor holds the presented slot
\* from now on; a release queued for an earlier presentation of the slot does
\* not release this one
buffers_flip(surface_id) ==
    /\ flip(surface_id)
    /\ IF calls' = << >> THEN Untracked
       ELSE LET h == calls'[1].h
                idx == calls'[1].arg
            IN Tracked([comp_held EXCEPT ![h] = @ \cup {idx}],
                       [comp_pending EXCEPT ![h] = @ \ {idx}],
                       checked \ {surface_id},
                       [id \in DOMAIN last_returned |->
                           IF id = surface_id
                           THEN [last_returned[id] EXCEPT
                                    !.flips = IF @ = 0 THEN 1 ELSE 2]
                           ELSE last_returned[id]],
                       << >>)

\* the compositor is done with a slot it holds and queues the release
\* notification on the connection
compositor_release(h, slot) ==
    /\ phase = "live"
    /\ h \in DOMAIN comp_held
    /\ slot \in comp_held[h] \ comp_pending[h]
    /\ op' = Op("compositor_release", h, slot, 0)
    /\ ret' = Unit
    /\ calls' = << >>
    /\ comp_pending' = [comp_pending EXCEPT ![h] = @ \cup {slot}]
    /\ written' = << >>
    /\ UNCHANGED << phase, build, gpu, dwl, hist, comp_held, checked,
                    last_returned >>

\* dwl_context_dispatch: the queued release notifications are processed
buffers_dispatch_events ==
    /\ dispatch_events
    /\ Tracked([h \in DOMAIN comp_held |-> comp_held[h] \ comp_pending[h]],
               [h \in DOMAIN comp_pending |-> {}],
               {}, last_returned, << >>)

\* handles of native surfaces a compositor step may be about
NativeSurfaces == DOMAIN dwl_surfaces
Slots == 0 .. BUFFER_COUNT - 1

\* one surface at a time, with a compositor that holds a slot from the flip
\* that presents it until its release notification is dispatched, and a
\* caller that writes to a buffer it found free
NextBuffers ==
    \/ \E path \in Paths, alloc_ok \in BOOLEAN, setup_ok \in BOOLEAN :
          new(path, alloc_ok, setup_ok) /\ Untracked
    \/ buffers_dispatch_events
    \/ \E p \in SurfaceIds \cup {NoParent}, d \in Dims, fail \in CreateFailures :
          (fail = "none" => surfaces = EmptyMap /\ dwl_objects < MaxObjects)
             /\ create_surface(p, d[1], d[2], fail) /\ Untracked
    \/ \E id \in SurfaceIds : release_surface(id) /\ Untracked
    \/ \E id \in SurfaceIds : buffers_framebuffer_memory(id)
    \/ \E id \in SurfaceIds : caller_write(id)
    \/ \E id \in SurfaceIds : commit(id) /\ Untracked
    \/ \E id \in SurfaceIds : buffers_next_buffer_in_use(id)
    \/ \E id \in SurfaceIds : buffers_flip(id)
    \/ \E id \in SurfaceIds, b \in BOOLEAN : close_requested(id, b) /\ Untracked
    \/ \E h \in NativeSurfaces, slot \in Slots : compositor_release(h, slot)
    \/ \E dorder \in Orders(DOMAIN dmabufs), sorder \in Orders(DOMAIN surfaces) :
          GpuDisplay_drop(dorder, sorder) /\ Untracked

SpecBuffers == Init /\ [][NextBuffers]_vars

(* ------------------- a connection late in its life -------------------- *)
\* the surface registered under id 0 and the import registered under id 0
\* of a connection that never released them
FirstDims == CHOOSE d \in Dims : TRUE
FirstSurface ==
    create_surface_entry(dwl_address("surface", 1),
                         create_surface_sizes(FirstDims[1], FirstDims[2])[1])
FirstImport == dwl_address("dmabuf", 1)

\* a live connection on which U32_MOD - 1 surfaces and as many imports have
\* been created, and all of them released again except the first of each
InitWrap ==
    /\ pointer_width = 64
    /\ phase = "live"
    /\ debug_build \in BOOLEAN
    /\ ctx = dwl_address("context", 1)
    /\ dmabufs = HashMap_insert(EmptyMap, 0, FirstImport)
    /\ dmabuf_next_id = U32_MOD - 1
    /\ surfaces = HashMap_insert(EmptyMap, 0, FirstSurface)
    /\ surface_next_id = U32_MOD - 1
    /\ dwl_contexts = {ctx}
    /\ dwl_dmabufs = {FirstImport}
    /\ dwl_surfaces =
          HashMap_insert(EmptyMap, FirstSurface.surface,
                         dwl_surface_init(null_mut, FirstDims[1], FirstDims[2]))
    /\ dwl_allocs = [context |-> 1, dmabuf |-> U32_MOD - 1,
                     surface |-> U32_MOD - 1]
    /\ ctx_destroys = 0
    /\ op = Op("none", 0, 0, 0)
    /\ ret = Unit
    /\ calls = << >>
    \* the histories record what is returned from here on
    /\ issued_surfaces = << >>
    /\ issued_imports = << >>
    /\ comp_held = EmptyMap
    /\ comp_pending = EmptyMap
    /\ checked = {}
    /\ last_returned = EmptyMap
    /\ written = << >>

\* ids a caller passes late in the connection's life: the registered ones
\* and the value of the counter
WrapSurfaceIds == DOMAIN surfaces \cup {surface_next_id}
WrapImportIds == DOMAIN dmabufs \cup {dmabuf_next_id}

\* creations and releases around the point where the id counters reach the
\* largest u32: two more objects of each kind at most
NextWrap ==
    \/ \E native_ok \in BOOLEAN :
          (native_ok => dwl_allocs["dmabuf"] < U32_MOD + 1)
             /\ import_dmabuf(native_ok) /\ UNCHANGED ext
    \/ \E id \in WrapImportIds : release_import(id) /\ UNCHANGED ext
    \/ \E d \in Dims, fail \in CreateFailures :
          (fail = "none" => dwl_allocs["surface"] < U32_MOD + 1)
             /\ create_surface(NoParent, d[1], d[2], fail) /\ UNCHANGED ext
    \/ \E id \in WrapSurfaceIds : release_surface(id) /\ UNCHANGED ext
    \/ \E id \in WrapSurfaceIds : framebuffer_memory(id) /\ UNCHANGED ext
    \/ \E id \in WrapSurfaceIds : flip(id) /\ UNCHANGED ext
    \/ \E dorder \in Orders(DOMAIN dmabufs), sorder \in Orders(DOMAIN surfaces) :
          GpuDisplay_drop(dorder, sorder) /\ UNCHANGED ext

SpecWrap == InitWrap /\ [][NextWrap]_vars

(* ====================================================================== *)
(*                               Claims                                   *)
(* ====================================================================== *)
Registered(id) == id \in DOMAIN surfaces
\* the slot after the one a surface currently selects
Candidate(surface) == (surface.buffer_index + 1) % BUFFER_COUNT
\* position of the first call of fn in cs, 0 when there is none
FirstCall(cs, fn) ==
    IF \E i \in DOMAIN cs : cs[i].fn = fn
    THEN CHOOSE i \in DOMAIN cs :
           cs[i].fn = fn /\ \A j \in DOMAIN cs : cs[j].fn = fn => i <= j
    ELSE 0

\* C1: for every registered surface, in every reachable state, the slot after
\* the current index differs from the slot most recently passed to the native
\* flip call, and framebuffer_memory(id) returns exactly that candidate slot
\* (offset candidate * buffer_size, length buffer_size).
C1_FramebufferIsNextBuffer ==
    /\ \A id \in DOMAIN surfaces :
          Candidate(surfaces[id]) # dwl_surfaces[surfaces[id].surface].flipped
    /\ (op.name = "framebuffer_memory" /\ Registered(op.a)) =>
          LET s == surfaces[op.a]
          IN ret = Some(Candidate(s) * s.buffer_size, s.buffer_size)

\* C1 witness: framebuffer_memory has just answered for a surface that was
\* flipped before.
C1_Witness ==
    /\ op.name = "framebuffer_memory"
    /\ Registered(op.a)
    /\ dwl_surfaces[surfaces[op.a].surface].flipped = 1
    /\ ret.kind = "Some"
    /\ ret.val = 0

\* C2: a step changes the buffer index of a surface that stays registered
\* only if the step is flip(id) on that very surface; flip(id) on a registered
\* surface advances its index to the next slot.
C2_OnlyFlipChangesIndex ==
    [][ /\ \A id \in DOMAIN surfaces \cap DOMAIN surfaces' :
              surfaces'[id].buffer_index # surfaces[id].buffer_index
                => (op'.name = "flip" /\ op'.a = id)
        /\ (op'.name = "flip" /\ Registered(op'.a)) =>
              surfaces'[op'.a].buffer_index = Candidate(surfaces[op'.a])
      ]_vars

\* C2 witness: flip has advanced one of two registered surfaces and the other
\* still has its initial index.
C2_Witness ==
    /\ op.name = "flip"
    /\ Cardinality(DOMAIN surfaces) = 2
    /\ Registered(op.a)
    /\ surfaces[op.a].buffer_index = 1
    /\ \E other \in DOMAIN surfaces : other # op.a /\ surfaces[other].buffer_index = 0

StrictlyIncreasing(ids) ==
    \A i, j \in DOMAIN ids : i < j => ids[i] < ids[j]

C4_ReleaseIdempotent ==
    [][ /\ op'.name = "release_surface" =>
              /\ ret' = Unit
              /\ op'.a \notin DOMAIN surfaces'
              /\ UNCHANGED << ctx, dmabufs, dmabuf_next_id, surface_next_id,
                              dwl_contexts, dwl_dmabufs, dwl_allocs, ctx_destroys >>
              /\ IF Registered(op'.a)
                 THEN /\ surfaces' = [x \in DOMAIN surfaces \ {op'.a} |-> surfaces[x]]
                      /\ Count(calls', "dwl_surface_destroy") = 1
                      /\ Destroyed(calls', "dwl_surface_destroy")
                            = { surfaces[op'.a].surface }
                      /\ DOMAIN dwl_surfaces'
                            = DOMAIN dwl_surfaces \ { surfaces[op'.a].surface }
                 ELSE /\ calls' = << >>
                      /\ UNCHANGED << surfaces, dwl_surfaces >>
        /\ op'.name = "release_import" =>
              /\ ret' = Unit
              /\ op'.a \notin DOMAIN dmabufs'
              /\ UNCHANGED << ctx, surfaces, dmabuf_next_id, surface_next_id,
                              dwl_contexts, dwl_surfaces, dwl_allocs, ctx_destroys >>
              /\ IF op'.a \in DOMAIN dmabufs
                 THEN /\ dmabufs' = [x \in DOMAIN dmabufs \ {op'.a} |-> dmabufs[x]]
                      /\ calls' = << Call("dwl_dmabuf_destroy", dmabufs[op'.a], 0) >>
                      /\ dwl_dmabufs' = dwl_dmabufs \ { dmabufs[op'.a] }
                 ELSE /\ calls' = << >>
                      /\ UNCHANGED << dmabufs, dwl_dmabufs >>
      ]_vars

\* C4 witness: release_surface was called on an id that had been issued and
\* was already released, while another surface is registered.
C4_Witness ==
    /\ op.name = "release_surface"
    /\ op.a < surface_next_id
    /\ calls = << >>
    /\ surfaces # EmptyMap

\* C5: create_surface(Some(p), ..) with p not in the surface table returns
\* InvalidSurfaceId, makes no shared-memory or native call, and leaves the
\* connection and the native layer unchanged.
C5_UnknownParentRejectedFirst ==
    [][ (op'.name = "create_surface" /\ op'.a # NoParent /\ ~Registered(op'.a)) =>
          /\ ret' = Err("InvalidSurfaceId")
          /\ calls' = << >>
          /\ UNCHANGED << gpu, dwl, hist >>
      ]_vars

\* C5 witness: a create_surface naming a released parent was rejected while
\* another surface is registered.
C5_Witness ==
    /\ op.name = "create_surface"
    /\ ret = Err("InvalidSurfaceId")
    /\ op.a # NoParent
    /\ op.a < surface_next_id
    /\ surfaces # EmptyMap

\* C6: when a connection that still owns surfaces or imports is dropped,
\* every dwl_surface_destroy and dwl_dmabuf_destroy call of the teardown comes
\* before its dwl_context_destroy call.
C6_HandlesDestroyedBeforeContext ==
    op.name = "drop" =>
      \A i \in DOMAIN calls :
        calls[i].fn \in { "dwl_surface_destroy", "dwl_dmabuf_destroy" }
          => i < FirstCall(calls, "dwl_context_destroy")

\* C7: the native context is destroyed exactly once when a connected
\* GpuDisplay is dropped, exactly once when GpuDisplay::new fails with
\* InvalidPath or Connect, never when allocation returned null, and never
\* while the connection is in use; after either exit no native context is left.
C7_ContextDestroyedExactlyOnce ==
    /\ phase \in { "new", "live" } => ctx_destroys = 0
    /\ phase = "dropped" => (ctx_destroys = 1 /\ dwl_contexts = {})
    /\ phase = "failed" =>
          /\ dwl_contexts = {}
          /\ ret.err = "Allocate" => ctx_destroys = 0
          /\ ret.err \in { "InvalidPath", "Connect" } => ctx_destroys = 1

\* C7 witness: a connected GpuDisplay that owned a surface and an import has
\* been dropped.
C7_Witness ==
    /\ phase = "dropped"
    /\ ctx_destroys = 1
    /\ Count(calls, "dwl_surface_destroy") = 1
    /\ Count(calls, "dwl_dmabuf_destroy") = 1

\* C8: GpuDisplay::new returns Allocate when allocation yields nothing,
\* whatever the path; otherwise InvalidPath when the path is not valid UTF-8 or
\* holds an interior NUL, without attempting the handshake; otherwise Connect
\* when the handshake fails; otherwise a connection with empty tables and
\* zero counters, so the first surface id and the first import id issued are 0.
C8_ConnectFailureOrder ==
    /\ op.name = "new" =>
          /\ ret = ( IF ~op.b THEN Err("Allocate")
                     ELSE IF op.a \in { "non_utf8", "interior_nul" }
                          THEN Err("InvalidPath")
                     ELSE IF ~op.c THEN Err("Connect")
                     ELSE Ok(0) )
          /\ ret.err \in { "Allocate", "InvalidPath" }
                => Count(calls, "dwl_context_setup") = 0
          /\ ret.kind = "Ok" =>
                /\ phase = "live"
                /\ dmabufs = EmptyMap /\ surfaces = EmptyMap
                /\ dmabuf_next_id = 0 /\ surface_next_id = 0
    /\ issued_surfaces # << >> => issued_surfaces[1] = 0
    /\ issued_imports # << >> => issued_imports[1] = 0

\* C8 witness: allocation succeeded, the path held an interior NUL and
\* InvalidPath was returned.
C8_Witness ==
    /\ op.name = "new"
    /\ op.b
    /\ op.a = "interior_nul"
    /\ ret = Err("InvalidPath")

\* C9: import_dmabuf returns FailedImport exactly when the native import call
\* returned null, and then leaves the import table and counter unchanged; on
\* success the handle is stored under the old counter value, that value is
\* returned and the counter grows by one.
C9_ImportDmabuf ==
    [][ op'.name = "import_dmabuf" =>
          LET h == calls'[1].h
          IN /\ calls'[1].fn = "dwl_context_dmabuf_new"
             /\ (ret' = Err("FailedImport")) <=> (h = null_mut)
             /\ IF h = null_mut
                THEN /\ UNCHANGED << dmabufs, dmabuf_next_id >>
                     /\ calls' = << Call("dwl_context_dmabuf_new", null_mut, ctx) >>
                ELSE /\ dmabufs' =
                          [x \in DOMAIN dmabufs \cup {dmabuf_next_id} |->
                             IF x = dmabuf_next_id THEN h ELSE dmabufs[x]]
                     /\ dmabuf_next_id \notin DOMAIN dmabufs
                     /\ ret' = Ok(dmabuf_next_id)
                     /\ dmabuf_next_id' = dmabuf_next_id + 1
      ]_vars

\* C9 witness: an import failed after an earlier one had succeeded and is
\* still registered; no id was consumed.
C9_Witness ==
    /\ op.name = "import_dmabuf"
    /\ ret = Err("FailedImport")
    /\ dmabuf_next_id = 1
    /\ DOMAIN dmabufs = {0}

SurfaceOps ==
    { "commit", "flip", "flip_to", "set_position", "next_buffer_in_use",
      "close_requested", "framebuffer_memory" }
\* o is a per-surface operation whose surface id (or, for flip_to, import id)
\* is not in its table
MissingId(o) ==
    /\ o.name \in SurfaceOps
    /\ \/ ~Registered(o.a)
       \/ o.name = "flip_to" /\ o.b \notin DOMAIN dmabufs
\* what the operation returns for a missing id when it returns
MissingIdReturn(name) ==
    CASE name \in { "next_buffer_in_use", "close_requested" } -> Bool(FALSE)
      [] name = "framebuffer_memory" -> None
      [] OTHER -> Unit

\* C10 as stated: every per-surface operation on a missing id issues no
\* native call, changes no state, and returns (unit, false or none).
C10_MissingIdIsNoOp ==
    [][ MissingId(op') =>
          /\ calls' = << >>
          /\ UNCHANGED << gpu, dwl, hist >>
          /\ ret' = MissingIdReturn(op'.name)
      ]_vars

\* C10 amended: every per-surface operation on a missing id issues no native
\* call and changes no state; close_requested returns false and
\* framebuffer_memory returns none in every build; commit, flip, flip_to,
\* set_position and next_buffer_in_use return (unit, false) in a build without
\* debug assertions and panic at their debug assertion in a build with them.
C10_MissingIdIsNoOpOrDebugPanic ==
    [][ MissingId(op') =>
          /\ calls' = << >>
          /\ UNCHANGED << gpu, dwl, hist >>
          /\ ret' = ( IF debug_build
                         /\ op'.name \notin { "close_requested", "framebuffer_memory" }
                      THEN Panic
                      ELSE MissingIdReturn(op'.name) )
      ]_vars

\* C10 witness: in a build without debug assertions next_buffer_in_use was
\* called on a released surface id and returned false.
C10_Witness ==
    /\ ~debug_build
    /\ op.name = "next_buffer_in_use"
    /\ op.a < surface_next_id
    /\ ~Registered(op.a)
    /\ ret = Bool(FALSE)
    /\ calls = << >>

(* ------------------------------- C11 ---------------------------------- *)
\* width * BYTES_PER_PIXEL * height * BUFFER_COUNT as a mathematical product,
\* from the dimensions the native surface was created with
TrueSize(h) ==
    dwl_surfaces[h].width * BYTES_PER_PIXEL * dwl_surfaces[h].height * BUFFER_COUNT

\* C11: the region mapped for a surface that create_surface registered is a
\* whole number of pages and at least the page-rounded product
\* width * 4 * height * BUFFER_COUNT, the product taken without wrapping.
C11_MappedRegionCoversTrueSize ==
    \A id \in DOMAIN surfaces :
        /\ surfaces[id].buffer_mem % PAGE_SIZE = 0
        /\ surfaces[id].buffer_mem
              >= round_up_to_page_size(TrueSize(surfaces[id].surface))

(* ------------------------------- C12 ---------------------------------- *)
\* C12: a caller that writes through the slice of framebuffer_memory(id) only
\* after next_buffer_in_use(id) returned false, with no flip(id) and no
\* dispatch_events in between, never writes a slot the compositor holds.
C12_NoWriteIntoHeldSlot ==
    written # << >> => ~dwl_surface_buffer_in_use(written[1], written[2])

\* a write into the free slot of a surface whose other slot the compositor
\* holds, after both slots have been presented
C12_Witness ==
    /\ written # << >>
    /\ comp_held[written[1]] = Slots \ {written[2]}
    /\ dwl_surfaces[written[1]].flipped = 0

(* ------------------------------- C13 ---------------------------------- *)
\* a step in which flip(id) presented a buffer of a registered surface for
\* which framebuffer_memory(id) had returned a slice before
FlipAfterFramebufferMemory ==
    /\ op'.name = "flip"
    /\ calls' # << >>
    /\ op'.a \in DOMAIN last_returned

C14_SliceLengthAndRotation ==
    [][/\ (op'.name = "framebuffer_memory" /\ Registered(op'.a)) =>
             LET s == surfaces[op'.a]
                 n == dwl_surfaces[s.surface]
                 len == n.width * BYTES_PER_PIXEL * n.height
             IN /\ ret'.kind = "Some"
                /\ ret'.len = len
                /\ ret'.val = ((s.buffer_index + 1) % BUFFER_COUNT) * len
                /\ ret'.val # s.buffer_index * len
       /\ (op'.name = "create_surface" /\ ret'.kind = "Ok") =>
             surfaces'[ret'.val].buffer_index = 0
       /\ (op'.name = "flip" /\ Registered(op'.a)) =>
             surfaces'[op'.a].buffer_index
                = (surfaces[op'.a].buffer_index + 1) % BUFFER_COUNT]_vars

(* ------------------------------- C15 ---------------------------------- *)
\* C15: the buffer index next_buffer_in_use passes to the native in-use query
\* is the index of the slot framebuffer_memory returns in the same state.
C15_InUseQueryMatchesFramebuffer ==
    /\ (op.name = "next_buffer_in_use" /\ Registered(op.a)) =>
          calls = << Call("dwl_surface_buffer_in_use", surfaces[op.a].surface,
                          framebuffer_memory_index(surfaces[op.a])) >>
    /\ (op.name = "framebuffer_memory" /\ Registered(op.a)) =>
          /\ ret.kind = "Some"
          /\ SliceSlot(ret) = next_buffer_in_use_index(surfaces[op.a])

\* the query made on a surface that has been flipped to slot 1, so that the
\* slot asked about is slot 0 again
C15_Witness ==
    /\ op.name = "next_buffer_in_use"
    /\ Registered(op.a)
    /\ surfaces[op.a].buffer_index = 1
    /\ calls # << >>
    /\ calls[1].arg = 0

(* ------------------------------- C16 ---------------------------------- *)
\* C16: the native handle of a parent surface is not destroyed while a
\* surface created under it is still registered: the parent of every
\* registered surface is a native surface that is still alive.
C16_ParentOutlivesChildren ==
    \A id \in DOMAIN surfaces :
        surfaces[id].surface \in DOMAIN dwl_surfaces =>
           LET parent == dwl_surfaces[surfaces[id].surface].parent
           IN parent # null_mut => parent \in DOMAIN dwl_surfaces

(* ------------------------------- C17 ---------------------------------- *)
\* native functions that take a surface handle as their first argument
SurfaceFns ==
    { "dwl_surface_destroy", "dwl_surface_commit", "dwl_surface_buffer_in_use",
      "dwl_surface_flip", "dwl_surface_flip_to", "dwl_surface_close_requested",
      "dwl_surface_set_position" }
\* the surface, dmabuf and context handles a native call is given
SurfaceArgs(c) ==
    (IF c.fn \in SurfaceFns THEN {c.h} ELSE {})
       \cup (IF c.fn = "dwl_context_surface_new" /\ c.arg # null_mut
             THEN {c.arg} ELSE {})
DmabufArgs(c) ==
    (IF c.fn = "dwl_dmabuf_destroy" THEN {c.h} ELSE {})
       \cup (IF c.fn = "dwl_surface_flip_to" THEN {c.arg} ELSE {})
ContextArgs(c) ==
    (IF c.fn \in {"dwl_context_destroy", "dwl_context_dispatch"} THEN {c.h} ELSE {})
       \cup (IF c.fn = "dwl_context_dmabuf_new" THEN {c.arg} ELSE {})
\* handles destroyed by fn among the first i - 1 calls of cs
DestroyedBefore(cs, i, fn) ==
    { cs[j].h : j \in { k \in DOMAIN cs : k < i /\ cs[k].fn = fn } }

\* the handles held in the two tables are the native handles alive, each under
\* one id, and the context handle is the one native context alive
TablesMatchNative ==
    phase = "live" =>
       /\ { surfaces[id].surface : id \in DOMAIN surfaces } = DOMAIN dwl_surfaces
       /\ Cardinality(DOMAIN surfaces) = Cardinality(DOMAIN dwl_surfaces)
       /\ { dmabufs[id] : id \in DOMAIN dmabufs } = dwl_dmabufs
       /\ Cardinality(DOMAIN dmabufs) = Cardinality(dwl_dmabufs)
       /\ dwl_contexts = {ctx}
\* every handle given to a native call of the step was alive before the step
\* and has not been destroyed earlier in the step
CallsUseLiveHandles ==
    \A i \in DOMAIN calls' :
        /\ SurfaceArgs(calls'[i]) \subseteq
              DOMAIN dwl_surfaces \ DestroyedBefore(calls', i, "dwl_surface_destroy")
        /\ DmabufArgs(calls'[i]) \subseteq
              dwl_dmabufs \ DestroyedBefore(calls', i, "dwl_dmabuf_destroy")
        /\ ContextArgs(calls'[i]) \subseteq
              dwl_contexts \ DestroyedBefore(calls', i, "dwl_context_destroy")

\* C17: while the connection is live, the native surface and dmabuf handles
\* created and not yet destroyed are exactly the handles stored in the two
\* tables (nothing leaked, nothing stored after its destruction), and every
\* operation gives the native layer only handles that are still alive, so no
\* handle is destroyed twice or used after its destruction.
C17_HandlesMatchTables ==
    [][(phase = "live" => CallsUseLiveHandles) /\ TablesMatchNative']_vars

\* one of two registered objects released: its handle is destroyed and the
\* other one is still alive and registered
C17_Witness ==
    /\ phase = "live"
    /\ op.name = "release_surface"
    /\ Count(calls, "dwl_surface_destroy") = 1
    /\ Cardinality(DOMAIN dwl_surfaces) + Cardinality(dwl_dmabufs) = 1

(* ------------------------------- C18 ---------------------------------- *)
\* C18: for every registered surface the slot framebuffer_memory slices lies
\* inside the mapped region, candidate * buffer_size + buffer_size <= mapped
\* size, also when the u32 product width * 4 * height wrapped; so
\* framebuffer_memory returns a slice, never none, on a registered surface,
\* in every build of the crate.
C18_SliceInsideMapping ==
    /\ \A id \in DOMAIN surfaces :
          Candidate(surfaces[id]) * surfaces[id].buffer_size
             + surfaces[id].buffer_size <= surfaces[id].buffer_mem
    /\ (op.name = "framebuffer_memory" /\ Registered(op.a)) =>
          /\ ret.kind = "Some"
          /\ ret.val + ret.len <= surfaces[op.a].buffer_mem

(* ------------------------------- C19 ---------------------------------- *)
\* C19: create_surface and import_dmabuf never insert under a key that is
\* already in their table, and every registered id is below the table's
\* next-id counter, also once the counter has reached the largest u32.
C19_InsertUnderFreshKey ==
    [][/\ (op'.name = "create_surface" /\ surfaces' # surfaces) =>
             surface_next_id \notin DOMAIN surfaces
       /\ (op'.name = "import_dmabuf" /\ dmabufs' # dmabufs) =>
             dmabuf_next_id \notin DOMAIN dmabufs
       /\ \A id \in DOMAIN surfaces' : id < surface_next_id'
       /\ \A id \in DOMAIN dmabufs' : id < dmabuf_next_id']_vars

(* ------------------------------- C20 ---------------------------------- *)
\* the errors create_surface returns after the parent has been resolved
LateCreateErrors == { "CreateShm", "SetSize", "CreateSurface" }

\* C20: a create_surface call that fails with CreateShm, SetSize or
\* CreateSurface leaves both tables, both counters, every buffer index and
\* the native objects as they were, releases the shared memory and the
\* mapping it had set up, and issues no native surface destroy; a successful
\* call returns the value of the counter, which the failed call left alone,
\* so the next success returns the id the failed call would have returned.
C20_FailedCreateLeavesNoTrace ==
    [][/\ (op'.name = "create_surface" /\ ret'.kind = "Err"
              /\ ret'.err \in LateCreateErrors) =>
             /\ UNCHANGED << gpu, dwl, hist >>
             /\ Count(calls', "dwl_surface_destroy") = 0
             /\ Count(calls', "SharedMemory::new") = 1
             /\ Count(calls', "SharedMemory::drop")
                   = (IF ret'.err = "CreateShm" THEN 0 ELSE 1)
             /\ Count(calls', "MemoryMapping::drop")
                   = Count(calls', "MemoryMapping::from_fd")
             /\ Count(calls', "MemoryMapping::from_fd")
                   = (IF ret'.err = "CreateSurface" THEN 1 ELSE 0)
       /\ (op'.name = "create_surface" /\ ret'.kind = "Ok") =>
             ret'.val = surface_next_id]_vars

\* the native surface creation failed on a connection that has a surface
\* registered and flipped
C20_Witness ==
    /\ op.name = "create_surface"
    /\ ret = Err("CreateSurface")
    /\ surface_next_id = 1
    /\ Registered(0)
    /\ surfaces[0].buffer_index = 1

=============================================================================
